---- MODULE Spec2Model ----
(***************************************************************************)
(* ttynt (src/src/main.rs): reads lines from standard input, matches each  *)
(* line against the user's patterns and writes it back with the matches    *)
(* coloured.  The model covers main, assign_color_to_pattern, the four     *)
(* sink helpers, process_input and apply_color.                            *)
(*                                                                         *)
(* A line is a sequence of one-character strings.  Offsets are 0-based and *)
(* half-open, as in the source.  A pattern is a literal string; the       *)
(* literal "(" is the pattern the regex crate refuses to compile.          *)
(***************************************************************************)
EXTENDS Integers, Sequences, FiniteSets

\* ---------------------------------------------------------------- bounds
MaxLineLen == 3
MaxPatterns == 2
MaxLongPatterns == 13
MaxStdoutLineLen == 1

\* ---------------------------------------------------------------- inputs
Chars == {"a", "A", "b"}
NL == "\n"
BadPattern == <<"(">>
PatternPool == { <<>>, <<"a">>, <<"A">>, <<"a", "a">>, <<"a", "b">>, BadPattern }

LinesUpTo(len) == UNION { [1..n -> Chars] : n \in 0..len }
\* the lines read when the sink is a buffer, and when it is the standard stream
Lines(sink) == LinesUpTo(IF sink = "Buffer" THEN MaxLineLen ELSE MaxStdoutLineLen)

ShortLists == UNION { [1..n -> PatternPool] : n \in 0..MaxPatterns }
\* n - 1 copies of one pattern, then a last pattern that is the same or bad
LongLists ==
  { [i \in 1..n |-> IF i = n THEN q ELSE p] :
      n \in (MaxPatterns + 1)..MaxLongPatterns,
      p \in {<<"a">>},
      q \in {<<"a">>, BadPattern} }
PatternLists == ShortLists \cup LongLists
\* the runs on the standard stream take no pattern or a single one: every set of
\* failing calls is explored for them, and that set doubles with each call
StdoutLists == {<<>>} \cup { <<p>> : p \in PatternPool }

Min(S) == CHOOSE x \in S : \A y \in S : x <= y

\* ------------------------------------------------- assign_color_to_pattern
PaletteSize == 12
colors ==
  << "Red", "Yellow", "Blue", "Green", "Magenta", "Cyan",
     "Ansi256(49)", "Ansi256(220)", "Ansi256(51)", "Ansi256(106)",
     "Ansi256(207)", "Ansi256(165)" >>

\* RegexBuilder::new(pattern).case_insensitive(..).build()
RegexBuild(pattern, case_sensitive) ==
  IF \E j \in 1..Len(pattern) : pattern[j] = "("
  THEN [ok |-> FALSE, regex |-> [lit |-> <<>>, ci |-> FALSE]]
  ELSE [ok |-> TRUE, regex |-> [lit |-> pattern, ci |-> ~case_sensitive]]

\* a palette index that stops at the last colour instead of wrapping
ColorAt_clamped(i) == colors[(IF i < Len(colors) THEN i ELSE Len(colors) - 1) + 1]

\* colors[i % colors.len()], i counted from 0
ColorAt(i) == colors[(i % Len(colors)) + 1]

\* a compiler that drops a pattern it cannot build and returns the rest
RECURSIVE AssignFrom_partial(_, _, _, _, _)
AssignFrom_partial(patterns, case_sensitive, i, acc, written) ==
  IF i >= Len(patterns)
  THEN [ok |-> TRUE, pairs |-> acc, error |-> <<>>, diag |-> <<>>, failed |-> FALSE,
        panicked |-> FALSE]
  ELSE LET pattern == patterns[i + 1]
           built == RegexBuild(pattern, case_sensitive)
       IN IF ~built.ok
          THEN AssignFrom_partial(patterns, case_sensitive, i + 1, acc, written)
          ELSE AssignFrom_partial(patterns, case_sensitive, i + 1,
                                  Append(acc, [regex |-> built.regex, color |-> ColorAt(i)]),
                                  written)

\* the loop of assign_color_to_pattern from index i on.  `written` tells whether
\* the eprintln! of its map_err closure gets its line onto stderr; when it does
\* not, eprintln! panics and the function never returns.
RECURSIVE AssignFrom(_, _, _, _, _)
AssignFrom(patterns, case_sensitive, i, acc, written) ==
  IF i >= Len(patterns)
  THEN [ok |-> TRUE, pairs |-> acc, error |-> <<>>, diag |-> <<>>, failed |-> FALSE,
        panicked |-> FALSE]
  ELSE LET pattern == patterns[i + 1]
           built == RegexBuild(pattern, case_sensitive)
       IN IF ~built.ok
          THEN IF written
               THEN [ok |-> FALSE, pairs |-> <<>>, error |-> pattern,
                     diag |-> << <<"Error compiling pattern", pattern>> >>,
                     failed |-> TRUE, panicked |-> FALSE]
               ELSE [ok |-> FALSE, pairs |-> <<>>, error |-> <<>>, diag |-> <<>>,
                     failed |-> TRUE, panicked |-> TRUE]
          ELSE AssignFrom(patterns, case_sensitive, i + 1,
                          Append(acc, [regex |-> built.regex, color |-> ColorAt(i)]),
                          written)

assign_color_to_pattern(patterns, case_sensitive, written) ==
  AssignFrom(patterns, case_sensitive, 0, <<>>, written)

\* ------------------------------------------------------------ sink helpers
NoSpec == [kind |-> "none", color |-> "none"]

\* write!(out, "{}", "") formats no bytes: nothing is handed to the sink and the
\* call cannot fail.  writeln! always has its terminator to write, and set_color
\* and reset always go to the sink.
Unfailing(op, text) == op = "write" /\ text = <<>>

\* a sink helper that gives the line up once a call has failed
SinkCall_abandon(st, op, text, spec, msg) ==
  IF st.panicked \/ st.diag # <<>> THEN st
  ELSE LET i == Len(st.ops) + 1
           ok == Unfailing(op, text) \/ i \notin st.F
           call == [op |-> op, text |-> text, spec |-> spec, ok |-> ok]
       IN IF ok THEN [st EXCEPT !.ops = Append(@, call)]
          ELSE IF Len(st.diag) < st.E
          THEN [st EXCEPT !.ops = Append(@, call), !.diag = Append(@, <<msg, i>>)]
          ELSE [st EXCEPT !.ops = Append(@, call), !.panicked = TRUE]

\* one helper call.  The call numbered i fails when i is in st.F and it reaches
\* the sink; the helper then reports with eprintln!.  The first st.E reports of
\* the call of apply_color get onto stderr and the helper returns; the next one
\* does not, eprintln! panics and nothing of apply_color runs after it.
SinkCall(st, op, text, spec, msg) ==
  IF st.panicked THEN st
  ELSE LET i == Len(st.ops) + 1
           ok == Unfailing(op, text) \/ i \notin st.F
           call == [op |-> op, text |-> text, spec |-> spec, ok |-> ok]
       IN IF ok THEN [st EXCEPT !.ops = Append(@, call)]
          ELSE IF Len(st.diag) < st.E
          THEN [st EXCEPT !.ops = Append(@, call), !.diag = Append(@, <<msg, i>>)]
          ELSE [st EXCEPT !.ops = Append(@, call), !.panicked = TRUE]

write(st, text) == SinkCall(st, "write", text, NoSpec, "Error writing line")
\* writeln! mistaken for write!
write_line_unterminated(st, text) == SinkCall(st, "write", text, NoSpec, "Error writing line")
write_line(st, text) == SinkCall(st, "write_line", text, NoSpec, "Error writing line")
set_color(st, color_spec) == SinkCall(st, "set_color", <<>>, color_spec, "Error setting color")
reset_color(st) == SinkCall(st, "reset", <<>>, NoSpec, "Error resetting color")

\* ------------------------------------------------------------- apply_color
Fold(c, ci) == IF ci /\ c = "A" THEN "a" ELSE c

\* the literal of regex matches line at offset s
MatchAt(regex, line, s) ==
  /\ s + Len(regex.lit) <= Len(line)
  /\ \A j \in 1..Len(regex.lit) : Fold(regex.lit[j], regex.ci) = Fold(line[s + j], regex.ci)

\* regex.find_iter(line): leftmost non-overlapping matches from offset pos on;
\* after an empty match the search resumes one character further
RECURSIVE FindFrom(_, _, _)
FindFrom(regex, line, pos) ==
  LET cands == { s \in pos..(Len(line) - Len(regex.lit)) : MatchAt(regex, line, s) }
  IN IF cands = {} THEN <<>>
     ELSE LET s == Min(cands)
              e == s + Len(regex.lit)
          IN <<[start |-> s, end |-> e]>> \o FindFrom(regex, line, IF e = s THEN e + 1 ELSE e)

find_iter(regex, line) == FindFrom(regex, line, 0)

\* for (regex, color) in patterns { for mat in regex.find_iter(line) { push } }
RECURSIVE CollectMatches(_, _, _)
CollectMatches(line, patterns, k) ==
  IF k > Len(patterns) THEN <<>>
  ELSE LET found == find_iter(patterns[k].regex, line)
       IN [j \in 1..Len(found) |->
             [start |-> found[j].start, end |-> found[j].end, color |-> patterns[k].color]]
          \o CollectMatches(line, patterns, k + 1)

\* an unstable insertion: before the elements of equal key
InsertPos_unstable(sorted, m) == Cardinality({ j \in 1..Len(sorted) : sorted[j].start < m.start })

\* where a new element goes in a list already sorted: after every key <= its own
InsertPos(sorted, m) == Cardinality({ j \in 1..Len(sorted) : sorted[j].start <= m.start })

InsertSorted(sorted, m) ==
  LET p == InsertPos(sorted, m)
  IN SubSeq(sorted, 1, p) \o <<m>> \o SubSeq(sorted, p + 1, Len(sorted))

\* matches.sort_by_key(|k| k.0): a stable sort on start
RECURSIVE SortFrom(_, _, _)
SortFrom(ms, k, acc) ==
  IF k > Len(ms) THEN acc ELSE SortFrom(ms, k + 1, InsertSorted(acc, ms[k]))

sort_by_key(ms) == SortFrom(ms, 1, <<>>)

\* ColorSpec::new() with set_bg or set_fg
ColorSpecOf(color, background) ==
  [kind |-> IF background THEN "bg" ELSE "fg", color |-> color]

\* &line[a..b]; Rust panics unless a <= b <= len
ValidRange(line, a, b) == 0 <= a /\ a <= b /\ b <= Len(line)
Slice(line, a, b) == SubSeq(line, a + 1, b)

\* the guard with a strict comparison, and the guard left out
RenderGuard_strict(start, last_end) == start > last_end
RenderGuard_always(start, last_end) == TRUE

\* if start >= last_end
RenderGuard(start, last_end) == start >= last_end

\* the colour set before the unstyled gap is written
RenderMatch_early_color(st, line, m, background) ==
  LET s1 == set_color(st, ColorSpecOf(m.color, background))
      s2 == write(s1, Slice(line, st.last_end, m.start))
      s3 == write(s2, Slice(line, m.start, m.end))
  IN reset_color(s3)

\* the four sink calls for a rendered match
RenderMatch(st, line, m, background) ==
  LET s1 == write(st, Slice(line, st.last_end, m.start))
      s2 == set_color(s1, ColorSpecOf(m.color, background))
      s3 == write(s2, Slice(line, m.start, m.end))
  IN reset_color(s3)

\* last_end left where it was
NextLastEnd_stale(st, m) == st.last_end

\* last_end = end
NextLastEnd(st, m) == m.end

\* one iteration of the span-mode loop; walk holds the iterations completed.
\* A panic in one of the four helper calls unwinds at once: last_end = end is
\* not executed and the iteration is not completed.
SpanStep(st, line, m, background) ==
  IF st.panicked THEN st
  ELSE IF RenderGuard(m.start, st.last_end)
  THEN IF ~(ValidRange(line, st.last_end, m.start) /\ ValidRange(line, m.start, m.end))
       THEN [st EXCEPT !.panicked = TRUE]
       ELSE LET r == RenderMatch(st, line, m, background)
            IN IF r.panicked THEN r
               ELSE [r EXCEPT !.last_end = NextLastEnd(st, m),
                              !.walk = Append(@, [before |-> st.last_end, start |-> m.start,
                                                  end |-> m.end, rendered |-> TRUE,
                                                  after |-> NextLastEnd(st, m)])]
  ELSE [st EXCEPT !.walk = Append(@, [before |-> st.last_end, start |-> m.start,
                                      end |-> m.end, rendered |-> FALSE,
                                      after |-> st.last_end])]

RECURSIVE SpanLoop(_, _, _, _, _)
SpanLoop(st, line, ms, background, k) ==
  IF k > Len(ms) THEN st
  ELSE SpanLoop(SpanStep(st, line, ms[k], background), line, ms, background, k + 1)

SpanMode(st, line, ms, background) ==
  LET s == SpanLoop(st, line, ms, background, 1)
  IN IF s.panicked \/ ~ValidRange(line, s.last_end, Len(line))
     THEN [s EXCEPT !.panicked = TRUE]
     ELSE write_line(s, Slice(line, s.last_end, Len(line)))

WholeLineMode(st, line, ms, background) ==
  LET color == ms[1].color
      s1 == set_color(st, ColorSpecOf(color, background))
      s2 == write(s1, line)
      s3 == reset_color(s2)
  IN write_line(s3, <<>>)

StartState(F, E) ==
  [ops |-> <<>>, F |-> F, E |-> E, diag |-> <<>>, last_end |-> 0, walk |-> <<>>,
   panicked |-> FALSE]

\* ret is the value returned, "none" when the call panicked and returned nothing
apply_color(line, patterns, whole_line, background, F, E) ==
  LET collected == CollectMatches(line, patterns, 1)
  IN IF collected = <<>>
     THEN LET st == write_line(StartState(F, E), line)
          IN [ret |-> IF st.panicked THEN "none" ELSE FALSE, matches |-> collected, st |-> st]
     ELSE LET sorted == sort_by_key(collected)
              st == IF whole_line
                    THEN WholeLineMode(StartState(F, E), line, sorted, background)
                    ELSE SpanMode(StartState(F, E), line, sorted, background)
          IN [ret |-> IF st.panicked THEN "none" ELSE TRUE, matches |-> sorted, st |-> st]

\* the helper calls of a list that reach the sink, and so can fail
Fallible(calls) == { i \in 1..Len(calls) : ~Unfailing(calls[i].op, calls[i].text) }

\* the sets of helper calls that fail during one call of apply_color making the
\* calls `calls`.  A termcolor Buffer (the tests' sink) is in memory and never
\* fails.  On the standard stream every call that reaches the sink may fail or
\* succeed whatever the calls before it did (a short write can still fit the
\* stream's buffer when a longer one does not): any set of such calls.
FailureModes(sink, calls) ==
  IF sink = "Buffer" THEN {{}} ELSE SUBSET Fallible(calls)

\* eprintln! writes its line to stderr and panics ("failed printing to stderr")
\* when the write fails.  Whatever stderr is (a terminal that hangs up, a pipe
\* whose reader has gone, a full device), any write to it can be refused, at
\* the first eprintln! or after earlier ones were written; the panic message
\* is refused too and the process ends with status 101.  `stderr` names the run,
\* not the device: "Accepting" is a run in which stderr takes every write made
\* to it, "Refusing" one in which each write may or may not be taken.
\* the outcomes of one eprintln!: TRUE when its line is written
Eprintln(stderr) == IF stderr = "Accepting" THEN {TRUE} ELSE BOOLEAN

\* the numbers of reports that get onto stderr in a call of apply_color in which
\* n helper calls are set to fail: all n, or fewer, the next eprintln! panicking
ReportsWritten(stderr, n) == IF stderr = "Accepting" THEN {n} ELSE 0..n

\* ------------------------------------------------------------------- state
VARIABLES out,  \* the sink: "Buffer" (create_test_writer) or "StandardStream" (main)
  err,       \* stderr in this run: "Accepting" (every write to it succeeds) or
             \* "Refusing" (any write to it may fail)
  args,      \* Cli: patterns, whole_line, case_sensitive, background
  pc,        \* position in main / process_input
  result,    \* what assign_color_to_pattern returned
  line,      \* the line of the current apply_color call
  matches,   \* its matches vector
  walk,      \* the iterations of its span-mode loop
  ops,       \* the calls it made on the sink helpers, in order
  ret,       \* its return value
  diag,      \* lines on stderr since startup or since the current input item was read
  nfail      \* operations that returned an error in that same interval

vars == <<out, err, args, pc, result, line, matches, walk, ops, ret, diag, nfail>>

NoLine == <<"none">>
NoResult == [ok |-> FALSE, pairs |-> <<>>, error |-> <<>>, diag |-> <<>>, failed |-> FALSE,
             panicked |-> FALSE]

Start ==
  /\ pc = "main"
  /\ result = NoResult
  /\ line = NoLine
  /\ matches = <<>>
  /\ walk = <<>>
  /\ ops = <<>>
  /\ ret = "none"
  /\ diag = <<>>
  /\ nfail = 0

Streams == {"Accepting", "Refusing"}

\* the program writing to an in-memory buffer, as the tests run it
Init ==
  /\ out = "Buffer"
  /\ err \in Streams
  /\ args \in [patterns : PatternLists, whole_line : BOOLEAN,
               case_sensitive : BOOLEAN, background : BOOLEAN]
  /\ Start

\* the program writing to standard output, as main runs it
InitStdout ==
  /\ out = "StandardStream"
  /\ err \in Streams
  /\ args \in [patterns : StdoutLists, whole_line : BOOLEAN,
               case_sensitive : BOOLEAN, background : BOOLEAN]
  /\ Start

\* the runs of main in which stderr takes every write
InitAccepting ==
  /\ out = "StandardStream"
  /\ err = "Accepting"
  /\ args \in [patterns : StdoutLists, whole_line : BOOLEAN,
               case_sensitive : BOOLEAN, background : BOOLEAN]
  /\ Start

\* main: match assign_color_to_pattern(&args.patterns, args.case_sensitive)
\* a panic inside the call ends the process before `result` is bound
Compile ==
  /\ pc = "main"
  /\ \E written \in Eprintln(err) :
       \E r \in { assign_color_to_pattern(args.patterns, args.case_sensitive, written) } :
         /\ result' = IF r.panicked THEN NoResult ELSE r
         /\ diag' = r.diag
         /\ nfail' = IF r.failed THEN 1 ELSE 0
         /\ pc' = IF r.panicked THEN "panic" ELSE "match"
  /\ UNCHANGED <<out, err, args, line, matches, walk, ops, ret>>

\* main: Ok(patterns) => process_input(...)
MainOk ==
  /\ pc = "match"
  /\ result.ok
  /\ pc' = "process_input"
  /\ UNCHANGED <<out, err, args, result, line, matches, walk, ops, ret, diag, nfail>>

\* main: Err(e) => eprintln!("Error creating patterns: {}", e)
MainErr ==
  /\ pc = "match"
  /\ ~result.ok
  /\ \E written \in Eprintln(err) :
       /\ diag' = IF written THEN Append(diag, <<"Error creating patterns", result.error>>)
                  ELSE diag
       /\ pc' = IF written THEN "done" ELSE "panic"
  /\ UNCHANGED <<out, err, args, result, line, matches, walk, ops, ret, nfail>>

\* process_input: Ok(line) => apply_color(...)
ReadLineOk ==
  /\ pc = "process_input"
  /\ \E l \in Lines(out) :
       \E calls \in { apply_color(l, result.pairs, args.whole_line, args.background, {}, 0).st.ops } :
         \E F \in FailureModes(out, calls) :
           \E E \in ReportsWritten(err, Cardinality(F)) :
           \E r \in { apply_color(l, result.pairs, args.whole_line, args.background, F, E) } :
             /\ line' = l
             /\ matches' = r.matches
             /\ walk' = r.st.walk
             /\ ops' = r.st.ops
             /\ ret' = r.ret
             /\ diag' = r.st.diag
             /\ nfail' = Cardinality({ i \in 1..Len(r.st.ops) : ~r.st.ops[i].ok })
             /\ pc' = IF r.st.panicked THEN "panic" ELSE "next_line"
  /\ UNCHANGED <<out, err, args, result>>

\* process_input: Err(e) => eprintln!("Error reading line: {}", e)
ReadLineErr ==
  /\ pc = "process_input"
  /\ \E written \in Eprintln(err) :
       /\ diag' = IF written THEN << <<"Error reading line", 0>> >> ELSE <<>>
       /\ pc' = IF written THEN "next_line" ELSE "panic"
  /\ nfail' = 1
  /\ UNCHANGED <<out, err, args, result, line, matches, walk, ops, ret>>

\* process_input: the loop body ends, its line is dropped, the loop asks for the next item
NextLine ==
  /\ pc = "next_line"
  /\ line' = NoLine
  /\ matches' = <<>>
  /\ walk' = <<>>
  /\ ops' = <<>>
  /\ ret' = "none"
  /\ diag' = <<>>
  /\ nfail' = 0
  /\ pc' = "process_input"
  /\ UNCHANGED <<out, err, args, result>>

\* process_input: reader.lines() is exhausted; main returns
EndOfInput ==
  /\ pc = "process_input"
  /\ pc' = "done"
  /\ UNCHANGED <<out, err, args, result, line, matches, walk, ops, ret, diag, nfail>>

Next == Compile \/ MainOk \/ MainErr \/ ReadLineOk \/ ReadLineErr \/ NextLine \/ EndOfInput

Spec == Init /\ [][Next]_vars
SpecStdout == InitStdout /\ [][Next]_vars
SpecAccepting == InitAccepting /\ [][Next]_vars

\* ------------------------------------------------------------------ claims
\* apply_color has run on `line` (or panicked in it) and the loop body has not ended
Called == pc \in {"next_line", "panic"} /\ line # NoLine
\* the call found a match (it returns true when it returns)
SpanCall == Called /\ ~args.whole_line /\ matches # <<>>
WholeCall == Called /\ args.whole_line /\ matches # <<>>

\* the text the sink received, in order; a write_line ends with the terminator
RECURSIVE Emitted(_)
Emitted(os) ==
  IF os = <<>> THEN <<>>
  ELSE (IF Head(os).op = "write" THEN Head(os).text
        ELSE IF Head(os).op = "write_line" THEN Append(Head(os).text, NL)
        ELSE <<>>) \o Emitted(Tail(os))

Kinds(os) == [i \in 1..Len(os) |-> os[i].op]
Rendered == { i \in 1..Len(walk) : walk[i].rendered }
Overlap(a, b) == a.start < b.end /\ b.start < a.end
ZeroWidth(m) == m.start = m.end

\* no pattern of the list matches the line at any offset
NoPatternMatches(l, pairs) ==
  \A k \in 1..Len(pairs) : \A s \in 0..Len(l) : ~MatchAt(pairs[k].regex, l, s)

\* C1: in span mode, when a match was found and no sink call failed, the text
\* written to the sink, in emission order, is the original line followed by
\* exactly one line terminator.
C1_RoundTrip ==
  (SpanCall /\ nfail = 0) => Emitted(ops) = Append(line, NL)

\* C1 witness: a three-character line with a rendered match, a skipped
\* overlapping match, a non-empty gap and a non-empty trailing slice
C1_Witness ==
  /\ SpanCall /\ nfail = 0 /\ pc = "next_line"
  /\ Len(line) = MaxLineLen
  /\ \E i \in Rendered : walk[i].before < walk[i].start /\ walk[i].end < Len(line)
  /\ \E i \in 1..Len(walk) : ~walk[i].rendered

\* C2: when no pattern matches the line (the empty pattern list included),
\* apply_color returns false and the sink receives exactly one call, a write
\* of the line with its terminator, and no set-color or reset, whatever the
\* whole_line and background flags are.
C2_NoMatchPassthrough ==
  (Called /\ NoPatternMatches(line, result.pairs)) =>
    /\ ret = FALSE
    /\ Len(ops) = 1
    /\ ops[1].op = "write_line"
    /\ ops[1].text = line
    /\ Emitted(ops) = Append(line, NL)

\* C2 witness: two compiled patterns, neither matching a full-length line, in
\* whole-line mode with the background flag set
C2_Witness ==
  /\ Called /\ NoPatternMatches(line, result.pairs)
  /\ Len(result.pairs) = 2 /\ Len(line) = MaxLineLen
  /\ args.whole_line /\ args.background

\* the end of the last match rendered before position i of the walk, 0 if none
PrevRenderedEnd(i) ==
  LET before == { j \in Rendered : j < i }
  IN IF before = {} THEN 0
     ELSE walk[CHOOSE j \in before : \A k \in before : k <= j].end

\* the styled slices, in emission order
StyledWrites == [n \in 1..Cardinality({ i \in 1..Len(ops) : ops[i].op = "set_color" }) |->
  LET i == CHOOSE i \in 1..Len(ops) :
             /\ ops[i].op = "set_color"
             /\ Cardinality({ j \in 1..i : ops[j].op = "set_color" }) = n
  IN ops[i + 1].text]

RenderedSlices == [n \in 1..Cardinality(Rendered) |->
  LET i == CHOOSE i \in Rendered : Cardinality({ j \in Rendered : j <= i }) = n
  IN Slice(line, walk[i].start, walk[i].end)]

\* C3 as stated: the walk is in ascending start order with the start >= last_end
\* rule, and of two overlapping matches only the earlier-starting one is rendered.
C3_EarlierOfOverlappingRendered ==
  SpanCall =>
    /\ \A i, j \in 1..Len(matches) : i < j => matches[i].start <= matches[j].start
    /\ \A i \in 1..Len(walk) : walk[i].rendered <=> walk[i].start >= PrevRenderedEnd(i)
    /\ \A i, j \in 1..Len(walk) :
         (walk[i].start < walk[j].start /\ Overlap(walk[i], walk[j]))
           => (walk[i].rendered /\ ~walk[j].rendered)

\* C3 amended: matches are walked in ascending start order; a match is rendered
\* exactly when its start is at or after the end of the previously rendered
\* match, and a skipped match emits nothing and leaves last_end alone.  The
\* rendered spans are pairwise non-overlapping and ascending, and a match that
\* overlaps a rendered match walked before it is dropped (so of two overlapping
\* matches at most one is rendered, which need not be the earlier-starting one).
C3_OverlapResolution ==
  SpanCall =>
    /\ pc = "next_line"
    /\ Len(walk) = Len(matches)
    /\ \A i, j \in 1..Len(matches) : i < j => matches[i].start <= matches[j].start
    /\ \A i \in 1..Len(walk) :
         /\ walk[i].rendered <=> walk[i].start >= PrevRenderedEnd(i)
         /\ ~walk[i].rendered => walk[i].after = walk[i].before
    /\ \A i, j \in Rendered : i < j => walk[i].end <= walk[j].start
    /\ \A i, j \in 1..Len(walk) :
         (i < j /\ Overlap(walk[i], walk[j]) /\ walk[i].rendered) => ~walk[j].rendered
    /\ StyledWrites = RenderedSlices
    /\ Len(ops) = 4 * Cardinality(Rendered) + 1

\* C3 witness: a rendered match, an overlapping match skipped, and a later
\* match that overlaps the skipped one and is rendered
C3_Witness ==
  /\ SpanCall /\ pc = "next_line"
  /\ \E i, j, k \in 1..Len(walk) :
       /\ i < j /\ j < k
       /\ walk[i].rendered /\ ~walk[j].rendered /\ walk[k].rendered
       /\ Overlap(walk[i], walk[j]) /\ Overlap(walk[j], walk[k])
       /\ walk[j].start < walk[k].start

\* the smallest offset at which any pattern matches, and the first pattern of
\* the list that matches there
MinStart ==
  Min({ s \in 0..Len(line) : \E k \in 1..Len(result.pairs) : MatchAt(result.pairs[k].regex, line, s) })
FirstPatternAtMinStart ==
  Min({ k \in 1..Len(result.pairs) : MatchAt(result.pairs[k].regex, line, MinStart) })

\* C4: in whole-line mode with at least one match, the one colour applied to
\* the line is that of the match with the smallest start; among matches with
\* that start, that of the pattern earliest in the list, whatever their ends.
C4_WholeLineColor ==
  WholeCall =>
    /\ ops[1].op = "set_color"
    /\ ops[1].spec = ColorSpecOf(result.pairs[FirstPatternAtMinStart].color, args.background)
    /\ Cardinality({ i \in 1..Len(ops) : ops[i].op = "set_color" }) = 1
    /\ ops[2].text = line

\* C4 witness: two patterns of different colours and lengths both match at the
\* smallest start, and the longer one comes second
C4_Witness ==
  /\ WholeCall
  /\ \E k1, k2 \in 1..Len(result.pairs) :
       /\ k1 < k2
       /\ MatchAt(result.pairs[k1].regex, line, MinStart)
       /\ MatchAt(result.pairs[k2].regex, line, MinStart)
       /\ result.pairs[k1].color # result.pairs[k2].color
       /\ Len(result.pairs[k1].regex.lit) < Len(result.pairs[k2].regex.lit)

AllCompile(patterns, case_sensitive) ==
  \A i \in 1..Len(patterns) : RegexBuild(patterns[i], case_sensitive).ok

\* C5: when every pattern compiles, assign_color_to_pattern returns a list of
\* the input's length and order whose pair at index i (from 0) carries
\* palette[i mod 12], whatever the pattern and the case setting; patterns i and
\* i + 12 get the same colour.
C5_ColorAssignment ==
  (pc # "main" /\ AllCompile(args.patterns, args.case_sensitive)) =>
    /\ result.ok
    /\ Len(colors) = PaletteSize
    /\ Len(result.pairs) = Len(args.patterns)
    /\ \A i \in 0..(Len(args.patterns) - 1) :
         /\ result.pairs[i + 1].color = colors[(i % PaletteSize) + 1]
         /\ result.pairs[i + 1].regex.lit = args.patterns[i + 1]
         /\ result.pairs[i + 1].regex.ci = ~args.case_sensitive
         /\ i + PaletteSize < Len(args.patterns)
              => result.pairs[i + 1].color = result.pairs[i + PaletteSize + 1].color

\* C5 witness: more patterns than the palette has colours, all compiled
C5_Witness ==
  /\ pc # "main" /\ result.ok
  /\ Len(args.patterns) > PaletteSize
  /\ AllCompile(args.patterns, args.case_sensitive)

\* the calls of a list, without their outcome
Attempted(os) == [i \in 1..Len(os) |-> [op |-> os[i].op, text |-> os[i].text, spec |-> os[i].spec]]
FailedCalls == { i \in 1..Len(ops) : ~ops[i].ok }

\* C6 as stated: a failed sink call is reported, no further sink call is made
\* for that line, and process_input goes on to the next line.
C6_FailureAbandonsLine ==
  Called =>
    /\ \A i \in FailedCalls : i = Len(ops)
    /\ Len(diag) = Cardinality(FailedCalls)
    /\ pc = "next_line"

\* the calls apply_color makes on the current line when none of them fails
FailureFreeCalls ==
  Attempted(apply_color(line, result.pairs, args.whole_line, args.background, {}, 0).st.ops)

\* diag holds one report for each of the first Len(diag) failed calls, in order,
\* each with the message of its helper
ReportsInOrder ==
  \A n \in 1..Len(diag) :
    /\ diag[n][2] \in FailedCalls
    /\ Cardinality({ i \in FailedCalls : i <= diag[n][2] }) = n
    /\ diag[n][1] =
         (IF ops[diag[n][2]].op = "set_color" THEN "Error setting color"
          ELSE IF ops[diag[n][2]].op = "reset" THEN "Error resetting color"
          ELSE "Error writing line")

\* C6 amended: a failed sink call makes its helper report to the diagnostic
\* channel, and what follows depends on that report alone.  When the report is
\* written, apply_color carries on: every remaining sink call of the line is
\* still attempted, each further failure reported in turn, the return value
\* is unchanged, and process_input goes on to the next line.  When the report
\* cannot be written (stderr refuses the write), eprintln! panics and the
\* process ends there: that failure is not reported, no further sink call is
\* made, apply_color does not return and no further line is processed.  A call
\* that ends the process is always a failed one whose report was not written.
C6_FailureReportedLineContinues ==
  Called =>
    /\ pc = "next_line" =>
         /\ Attempted(ops) = FailureFreeCalls
         /\ ops[Len(ops)].op = "write_line"
         /\ Len(diag) = Cardinality(FailedCalls)
         /\ ret = (matches # <<>>)
    /\ pc = "panic" =>
         /\ err = "Refusing"
         /\ Len(ops) <= Len(FailureFreeCalls)
         /\ Attempted(ops) = SubSeq(FailureFreeCalls, 1, Len(ops))
         /\ ~ops[Len(ops)].ok
         /\ Len(diag) = Cardinality(FailedCalls) - 1
         /\ ret = "none"
    /\ ReportsInOrder

\* C6 witness: stderr may refuse writes; a sink call fails, its report is
\* written and later calls of the same line succeed
C6_Witness ==
  /\ Called /\ pc = "next_line" /\ err = "Refusing"
  /\ \E i \in FailedCalls : i < Len(ops) /\ \A j \in (i + 1)..Len(ops) : ops[j].ok

\* the first pattern of the list that does not compile
FirstBadPattern ==
  args.patterns[Min({ i \in 1..Len(args.patterns) :
                       ~RegexBuild(args.patterns[i], args.case_sensitive).ok })]

\* C7 as stated: if any pattern fails to compile, whatever its position,
\* assign_color_to_pattern returns an error and no list of pairs, main never
\* calls process_input, no line is read and no call is made on the sink.
C7_CompileFailureFatal ==
  (pc # "main" /\ ~AllCompile(args.patterns, args.case_sensitive)) =>
    /\ ~result.ok
    /\ result.pairs = <<>>
    /\ result.error \in { args.patterns[i] : i \in 1..Len(args.patterns) }
    /\ pc \in {"match", "done"}
    /\ line = NoLine
    /\ ops = <<>>
    /\ ret = "none"

\* C7 amended: if any pattern fails to compile, whatever its position,
\* assign_color_to_pattern never yields a list of pairs, partial or whole: it
\* returns an error naming the first pattern that does not compile, or, when
\* its diagnostic cannot be written to stderr, panics in eprintln! and ends the
\* process without returning.  main, handed the error, reports it and returns,
\* or panics in its own eprintln!.  Either way process_input is never called,
\* no line is read and no call is made on the sink.
C7_CompileFailureNeverProcesses ==
  (pc # "main" /\ ~AllCompile(args.patterns, args.case_sensitive)) =>
    /\ ~result.ok
    /\ result.pairs = <<>>
    /\ pc \in {"match", "done", "panic"}
    /\ result.error \in {<<>>, FirstBadPattern}
    /\ pc \in {"match", "done"} => result.error = FirstBadPattern
    /\ result.error = <<>> => pc = "panic" /\ diag = <<>>
    /\ pc = "panic" => err = "Refusing"
    /\ pc = "done" => Len(diag) = 2
    /\ nfail = 1
    /\ line = NoLine
    /\ ops = <<>>
    /\ ret = "none"

\* C7 witness: stderr may refuse writes; the run has ended, the error returned
\* and reported, on a list whose first pattern compiles and whose second does not
C7_Witness ==
  /\ pc = "done" /\ ~result.ok /\ err = "Refusing"
  /\ Len(args.patterns) >= 2
  /\ RegexBuild(args.patterns[1], args.case_sensitive).ok
  /\ ~RegexBuild(args.patterns[2], args.case_sensitive).ok

\* C8: every failure (a pattern that does not compile, a read error, a failed
\* sink call) produces exactly one diagnostic: the diagnostics written since
\* startup, or since the current input item was read, are as many as the
\* operations that failed in that interval.
C8_OneDiagnosticPerFailure == Len(diag) = nfail

\* C9: in a call that finds a match and in which no sink call fails, each
\* set-color is followed at once by one write and then a reset; every other
\* write happens while no style is active; span mode emits write, set-color,
\* write, reset per rendered match, whole-line mode set-color, write(line),
\* reset; exactly one terminator is written and it is the last call.
StyleActive(i) ==
  \E j \in 1..(i - 1) :
    ops[j].op = "set_color" /\ \A k \in (j + 1)..(i - 1) : ops[k].op # "reset"

C9_SinkOrdering ==
  (Called /\ matches # <<>> /\ nfail = 0) =>
    /\ pc = "next_line" => ret = TRUE
    /\ \A i \in 1..Len(ops) :
         /\ ops[i].op = "set_color" =>
              i + 2 <= Len(ops) /\ ops[i + 1].op = "write" /\ ops[i + 2].op = "reset"
         /\ ops[i].op = "reset" => i >= 3 /\ ops[i - 2].op = "set_color"
         /\ (ops[i].op \in {"write", "write_line"} /\ ~(i > 1 /\ ops[i - 1].op = "set_color"))
              => ~StyleActive(i)
         /\ ops[i].op = "write_line" <=> i = Len(ops)
    /\ args.whole_line =>
         /\ Kinds(ops) = <<"set_color", "write", "reset", "write_line">>
         /\ ops[2].text = line
         /\ ops[4].text = <<>>
    /\ ~args.whole_line =>
         /\ Len(ops) = 4 * Cardinality(Rendered) + 1
         /\ \A n \in 0..(Cardinality(Rendered) - 1) :
              <<ops[4 * n + 1].op, ops[4 * n + 2].op, ops[4 * n + 3].op, ops[4 * n + 4].op>>
                = <<"write", "set_color", "write", "reset">>

\* C9 witness: a span-mode call that rendered two matches with a non-empty gap
\* before the second
C9_Witness ==
  /\ Called /\ pc = "next_line" /\ ret = TRUE /\ nfail = 0 /\ ~args.whole_line
  /\ Cardinality(Rendered) >= 2
  /\ \E i \in Rendered : walk[i].before > 0 /\ walk[i].before < walk[i].start

\* C10: in the span-mode walk last_end starts at 0 and never decreases; every
\* slice taken has 0 <= last_end <= start <= end <= length(line); each collected
\* match is visited exactly once, zero-width matches included, and the walk
\* ends without a panic; a skipped match is one whose start is before last_end.
C10_SliceBounds ==
  (Called /\ ~args.whole_line /\ matches # <<>>) =>
    /\ pc = "next_line"
    /\ Len(walk) = Len(matches)
    /\ walk[1].before = 0
    /\ \A i \in 1..Len(walk) :
         /\ walk[i].start = matches[i].start /\ walk[i].end = matches[i].end
         /\ i > 1 => walk[i].before = walk[i - 1].after
         /\ walk[i].before <= walk[i].after
         /\ walk[i].rendered =>
              /\ 0 <= walk[i].before /\ walk[i].before <= walk[i].start
              /\ walk[i].start <= walk[i].end /\ walk[i].end <= Len(line)
              /\ walk[i].after = walk[i].end
         /\ ~walk[i].rendered => walk[i].start < walk[i].before /\ walk[i].after = walk[i].before
    /\ walk[Len(walk)].after <= Len(line)

\* C10 witness: a zero-width match skipped inside a rendered match, and a
\* zero-width match rendered with further matches walked after it
C10_Witness ==
  /\ Called /\ ~args.whole_line /\ pc = "next_line"
  /\ \E i, j \in 1..Len(walk) :
       /\ i < j /\ j < Len(walk)
       /\ ZeroWidth(walk[i]) /\ ~walk[i].rendered
       /\ ZeroWidth(walk[j]) /\ walk[j].rendered
       /\ walk[j + 1].rendered

====
